---- MODULE Spec2Model ----
(***************************************************************************)
(* The content bootstrap (initDb / startServer of server.ts) and the read  *)
(* API (the three GET handlers of server.ts and of api/index.ts) over the  *)
(* posts and projects tables of one Postgres store.                        *)
(*                                                                         *)
(* One process runs at a time.  Its entry module is server.ts ("server")   *)
(* or api/index.ts ("api"); the store outlives the process, so a restart   *)
(* runs the bootstrap again against whatever the store then holds.  Every  *)
(* awaited store call is one step, and every store call may fail.          *)
(*                                                                         *)
(* ConcSpec adds a peer: a second instance of server.ts deployed against   *)
(* the same store, and follows the startups of the two.                    *)
(***************************************************************************)
EXTENDS Integers, Sequences, FiniteSets, Bags, TLC

(* ---------------------------------------------------------------- bounds *)

\* The most rows posts holds before the process first starts.
MaxPosts == 2

\* The most rows projects holds before the process first starts.
MaxProjects == 1

\* The number of requests that can be in flight at once.
MaxInFlight == 2

\* Postgres integer (the SERIAL id column) is 32 bits wide.
Int4Max == 2147483647

(* ------------------------------------------------------------------ data *)

PostTypes == {"thinking", "doing"}

\* A row of posts as the claims see it: id, type and title.
PostRow(i, t, ttl) == [id |-> i, type |-> t, title |-> ttl]

\* A row of projects.
ProjectRow(i, ttl) == [id |-> i, title |-> ttl]

\* The VALUES list of INSERT INTO posts, in order; ids come from the sequence.
SeedPosts(next) ==
    { PostRow(next, "thinking", "All I Need Is a Renaissance, Summer, and Success"),
      PostRow(next + 1, "doing", "Why I'm Building This Notes Section") }

\* The VALUES list of INSERT INTO projects, in order.
SeedProjects(next) ==
    { ProjectRow(next, "AI Research Lab"),
      ProjectRow(next + 1, "Data Viz Suite") }

\* req.query.type: undefined when the parameter is absent, else its string.
NoType == [present |-> FALSE, value |-> ""]

TypeParam(v) == [present |-> TRUE, value |-> v]

TypeParams ==
    { NoType } \cup { TypeParam(v) : v \in {"", "thinking", "doing", "Thinking", "think"} }

\* req.params.id: the path segment, as its characters.
IdParams ==
    { <<"1">>, <<"0", "2">>, <<"9", "9", "9", "9">>, <<"a", "b", "c">>,
      <<"2", "1", "4", "7", "4", "8", "3", "6", "4", "8">> }

DigitVal ==
    ("0" :> 0) @@ ("1" :> 1) @@ ("2" :> 2) @@ ("3" :> 3) @@ ("4" :> 4) @@
    ("5" :> 5) @@ ("6" :> 6) @@ ("7" :> 7) @@ ("8" :> 8) @@ ("9" :> 9)

(* -------------------------------------------------------- pure functions *)

\* The value of a digit string, or -1 once it no longer fits 32 bits.
RECURSIVE DigitsValue(_, _)
DigitsValue(s, acc) ==
    IF s = <<>> THEN acc
    ELSE LET d == DigitVal[Head(s)]
         IN  IF acc = -1 \/ acc > (Int4Max - d) \div 10
             THEN DigitsValue(Tail(s), -1)
             ELSE DigitsValue(Tail(s), acc * 10 + d)

\* Postgres reading the bound text parameter $1 as an integer for id = $1:
\* digits only, within 32 bits; anything else is a query error.
PgInt4In(s) ==
    IF s = <<>> \/ \E k \in 1..Len(s) : s[k] \notin DOMAIN DigitVal
    THEN [ok |-> FALSE, val |-> 0]
    ELSE LET v == DigitsValue(s, 0)
         IN  IF v = -1 THEN [ok |-> FALSE, val |-> 0] ELSE [ok |-> TRUE, val |-> v]

\* JavaScript truthiness of req.query.type in `if (type)`.
\* Variant: only the two enumerated values count as a filter.
Truthy_EnumOnly(t) == t.present /\ t.value \in PostTypes

Truthy(t) == t.present /\ t.value # ""

\* ORDER BY id DESC over a set of rows with distinct ids.
\* Variant: ascending order, as when the ORDER BY clause is dropped.
RECURSIVE OrderByIdAsc(_)
OrderByIdAsc(rows) ==
    IF rows = {} THEN <<>>
    ELSE LET m == CHOOSE r \in rows : \A q \in rows : q.id >= r.id
         IN  <<m>> \o OrderByIdAsc(rows \ {m})

RECURSIVE OrderByIdDesc(_)
OrderByIdDesc(rows) ==
    IF rows = {} THEN <<>>
    ELSE LET m == CHOOSE r \in rows : \A q \in rows : q.id <= r.id
         IN  <<m>> \o OrderByIdDesc(rows \ {m})

\* WHERE type = $1: text equality, case-sensitive and whole-string.
WhereType(rows, v) == { r \in rows : r.type = v }

\* WHERE id = $1.
WhereId(rows, i) == { r \in rows : r.id = i }

(* ----------------------------------------------------------------- state *)

VARIABLES
    entry,          \* the entry module of the process: "server" or "api"
    dbUrlSet,       \* whether process.env.DATABASE_URL is set
    pc,             \* where the process is
    tablesExist,    \* whether the posts and projects tables exist in the store
    posts,          \* the rows of posts
    projects,       \* the rows of projects
    postsSeq,       \* the next value of posts' id sequence
    projectsSeq,    \* the next value of projects' id sequence
    checkedOut,     \* the pool's number of checked-out connections
    client,         \* initDb's client: "none", "held" or "released"
    clientReleases, \* how many times initDb called client.release()
    thrown,         \* the stage of initDb whose error is in flight, or "none"
    logged,         \* whether "Error initializing database:" was logged in this run
    routes,         \* whether the three API routes are registered
    reqs,           \* the bag of requests being handled, with their responses
    startedEmpty,   \* history: the store held no row when the process first started
    found,          \* history: the rows this run of initDb found when it began
    peerPc,         \* where the peer instance of server.ts is in its initDb
    peerMode        \* the deployment: "exclusive" runs one initDb at a time,
                    \* "concurrent" lets the two instances' initDb overlap

vars ==
    << entry, dbUrlSet, pc, tablesExist, posts, projects, postsSeq, projectsSeq,
       checkedOut, client, clientReleases, thrown, logged, routes, reqs,
       startedEmpty, found, peerPc, peerMode >>

storeVars == << tablesExist, posts, projects, postsSeq, projectsSeq >>

\* What no step of the process itself changes: its environment, and the peer.
envVars == << entry, dbUrlSet, startedEmpty, peerPc, peerMode >>

initDbVars == << client, clientReleases, thrown, logged, found >>

NoResp == [status |-> 0, tag |-> "none", rows |-> <<>>, error |-> ""]

\* The requests a client can make of the Read API.
Requests ==
    { [kind |-> "posts", type |-> t, id |-> <<>>] : t \in TypeParams }
    \cup { [kind |-> "post", type |-> NoType, id |-> i] : i \in IdParams }
    \cup { [kind |-> "projects", type |-> NoType, id |-> <<>>] }

\* A request whose pool.query is outstanding: it holds one connection.
Querying(req) ==
    [phase |-> "querying", kind |-> req.kind, type |-> req.type, id |-> req.id,
     up |-> FALSE, resp |-> NoResp]

\* A request that has been answered; up tells whether the store could be
\* reached for its query.
Responded(req, up, resp) ==
    [phase |-> "responded", kind |-> req.kind, type |-> req.type, id |-> req.id,
     up |-> up, resp |-> resp]

One(r) == SetToBag({r})

InPhase(ph) == { r \in BagToSet(reqs) : r.phase = ph }

\* How many requests are in the given phase.
NumInPhase(ph) == BagCardinality([r \in InPhase(ph) |-> reqs[r]])

\* The stores the process can first start against: a fresh one with no tables,
\* or one whose tables hold rows numbered from 1 by their sequences.
TypeAssignments(n) == [1..n -> PostTypes]

InitialStores ==
    { [tables |-> FALSE, posts |-> {}, projects |-> {}] }
    \cup UNION { { [tables |-> TRUE,
                    posts |-> { PostRow(i, f[i], "earlier post") : i \in 1..n },
                    projects |-> { ProjectRow(i, "earlier project") : i \in 1..m }] :
                   f \in TypeAssignments(n) } :
                 n \in 0..MaxPosts, m \in 0..MaxProjects }

NothingFound == [posts |-> {}, projects |-> {}]

InitWith(stores) ==
    /\ entry \in {"server", "api"}
    /\ dbUrlSet \in BOOLEAN
    /\ pc = IF entry = "server" THEN "start" ELSE "load"
    /\ \E st \in stores :
          /\ tablesExist = st.tables
          /\ posts = st.posts
          /\ projects = st.projects
          /\ postsSeq = Cardinality(st.posts) + 1
          /\ projectsSeq = Cardinality(st.projects) + 1
          /\ startedEmpty = (st.posts = {} /\ st.projects = {})
    /\ checkedOut = 0
    /\ client = "none"
    /\ clientReleases = 0
    /\ thrown = "none"
    /\ logged = FALSE
    /\ routes = FALSE
    /\ reqs = EmptyBag
    /\ found = NothingFound
    /\ peerPc = "off"

Init == InitWith(InitialStores) /\ peerMode = "exclusive"

(* ----------------------------------------------------------- store calls *)

\* What a query resolves to: its rows, or a rejection (ok = FALSE).
Rows(rs) == [ok |-> TRUE, rows |-> rs]

Rejected == [ok |-> FALSE, rows |-> <<>>]

\* The query runs only if the connection works and the table exists.
Reachable(up) == up /\ tablesExist

\* "SELECT * FROM posts ORDER BY id DESC"
\* Variant: the ORDER BY clause dropped.
SelectPosts_Unordered(up) ==
    IF Reachable(up) THEN Rows(OrderByIdAsc(posts)) ELSE Rejected

SelectPosts(up) ==
    IF Reachable(up) THEN Rows(OrderByIdDesc(posts)) ELSE Rejected

\* "SELECT * FROM posts WHERE type = $1 ORDER BY id DESC", [type]
\* Variant: the ORDER BY clause dropped.
SelectPostsByType_Unordered(v, up) ==
    IF Reachable(up) THEN Rows(OrderByIdAsc(WhereType(posts, v))) ELSE Rejected

SelectPostsByType(v, up) ==
    IF Reachable(up) THEN Rows(OrderByIdDesc(WhereType(posts, v))) ELSE Rejected

\* "SELECT * FROM posts WHERE id = $1", [req.params.id]
SelectPostById(idText, up) ==
    LET i == PgInt4In(idText)
    IN  IF Reachable(up) /\ i.ok
        THEN Rows(OrderByIdDesc(WhereId(posts, i.val)))
        ELSE Rejected

\* "SELECT * FROM projects ORDER BY id DESC"
SelectProjects(up) ==
    IF Reachable(up) THEN Rows(OrderByIdDesc(projects)) ELSE Rejected

(* -------------------------------------------------------------- responses *)

\* res.json(rows): 200 with a JSON array.
JsonArray(rows) == [status |-> 200, tag |-> "array", rows |-> rows, error |-> ""]

\* res.json(rows[0]): 200 with a JSON object.
JsonObject(row) == [status |-> 200, tag |-> "object", rows |-> <<row>>, error |-> ""]

\* res.status(code).json({ error: message })
JsonError(code, message) ==
    [status |-> code, tag |-> "error", rows |-> <<>>, error |-> message]

DatabaseError == JsonError(500, "Database error")

PostNotFound == JsonError(404, "Post not found")

(* ------------------------------------------------- handlers of server.ts *)

\* app.get("/api/posts")
\* Variant: the try block without its catch, a rejection answered as no rows.
GetPosts_CatchAsEmpty(t, up) ==
    LET result == IF Truthy(t) THEN SelectPostsByType(t.value, up) ELSE SelectPosts(up)
    IN  JsonArray(result.rows)

GetPosts(t, up) ==
    LET result == IF Truthy(t) THEN SelectPostsByType(t.value, up) ELSE SelectPosts(up)
    IN  IF result.ok THEN JsonArray(result.rows) ELSE DatabaseError

\* app.get("/api/posts/:id")
\* Variant: the WHERE id = $1 clause dropped.
GetPostById_FirstOfAll(idText, up) ==
    LET result == SelectPosts(up)
    IN  IF result.ok
        THEN IF Len(result.rows) > 0 THEN JsonObject(result.rows[1]) ELSE PostNotFound
        ELSE DatabaseError

GetPostById(idText, up) ==
    LET result == SelectPostById(idText, up)
    IN  IF result.ok
        THEN IF Len(result.rows) > 0 THEN JsonObject(result.rows[1]) ELSE PostNotFound
        ELSE DatabaseError

\* app.get("/api/projects")
GetProjects(up) ==
    LET result == SelectProjects(up)
    IN  IF result.ok THEN JsonArray(result.rows) ELSE DatabaseError

(* ----------------------------------------------- handlers of api/index.ts *)

\* app.get("/api/posts")
ApiGetPosts(t, up) ==
    LET result == IF Truthy(t) THEN SelectPostsByType(t.value, up) ELSE SelectPosts(up)
    IN  IF result.ok THEN JsonArray(result.rows) ELSE DatabaseError

\* app.get("/api/posts/:id")
ApiGetPostById(idText, up) ==
    LET result == SelectPostById(idText, up)
    IN  IF result.ok
        THEN IF Len(result.rows) > 0 THEN JsonObject(result.rows[1]) ELSE PostNotFound
        ELSE DatabaseError

\* app.get("/api/projects")
ApiGetProjects(up) ==
    LET result == SelectProjects(up)
    IN  IF result.ok THEN JsonArray(result.rows) ELSE DatabaseError

\* The response of the route that matches the request, in the running module.
Handle(req, up) ==
    IF entry = "server"
    THEN CASE req.kind = "posts" -> GetPosts(req.type, up)
           [] req.kind = "post" -> GetPostById(req.id, up)
           [] OTHER -> GetProjects(up)
    ELSE CASE req.kind = "posts" -> ApiGetPosts(req.type, up)
           [] req.kind = "post" -> ApiGetPostById(req.id, up)
           [] OTHER -> ApiGetProjects(up)

(* ------------------------------------------------------ initDb, server.ts *)

\* The positions of the process inside initDb.
InitDbPcs ==
    {"connect", "create", "countPosts", "insertPosts", "countProjects",
     "insertProjects", "catch", "finally"}

\* A query of initDb threw: control goes to the catch block.
Throw(stage) ==
    /\ thrown' = stage
    /\ pc' = "catch"

\* const client = await pool.connect(), before the try block: a rejection here
\* is caught by nothing, so initDb and then startServer() reject.
InitDbConnect ==
    /\ pc = "connect"
    /\ \E ok \in BOOLEAN :
          IF ok
          THEN /\ client' = "held"
               /\ checkedOut' = checkedOut + 1
               /\ pc' = "create"
               /\ UNCHANGED thrown
          ELSE /\ thrown' = "connect"
               /\ pc' = "rejected"
               /\ UNCHANGED << client, checkedOut >>
    /\ found' = [posts |-> posts, projects |-> projects]
    /\ UNCHANGED << envVars, storeVars, clientReleases, logged, routes, reqs >>

\* CREATE TABLE IF NOT EXISTS posts (...); CREATE TABLE IF NOT EXISTS projects (...)
InitDbCreateTables ==
    /\ pc = "create"
    /\ \E ok \in BOOLEAN :
          IF ok
          THEN /\ tablesExist' = TRUE
               /\ pc' = "countPosts"
               /\ UNCHANGED thrown
          ELSE /\ Throw("create")
               /\ UNCHANGED tablesExist
    /\ UNCHANGED << envVars, posts, projects, postsSeq, projectsSeq, checkedOut, client,
                    clientReleases, logged, found, routes, reqs >>

\* parseInt(postCountRes.rows[0].count) === 0
\* Variant: the count is never tested.
IsEmpty_Always(rows) == TRUE

IsEmpty(rows) == Cardinality(rows) = 0

\* SELECT COUNT(*) as count FROM posts, and the test of the count.
InitDbCountPosts ==
    /\ pc = "countPosts"
    /\ \E ok \in BOOLEAN :
          IF Reachable(ok)
          THEN /\ pc' = IF IsEmpty(posts) THEN "insertPosts" ELSE "countProjects"
               /\ UNCHANGED thrown
          ELSE Throw("countPosts")
    /\ UNCHANGED << envVars, storeVars, checkedOut, client, clientReleases, logged,
                    found, routes, reqs >>

\* INSERT INTO posts (...) VALUES (...), (...): both rows or none.
InitDbInsertPosts ==
    /\ pc = "insertPosts"
    /\ \E ok \in BOOLEAN :
          IF Reachable(ok)
          THEN /\ posts' = posts \cup SeedPosts(postsSeq)
               /\ postsSeq' = postsSeq + 2
               /\ pc' = "countProjects"
               /\ UNCHANGED thrown
          ELSE /\ Throw("insertPosts")
               /\ UNCHANGED << posts, postsSeq >>
    /\ UNCHANGED << envVars, tablesExist, projects, projectsSeq, checkedOut, client,
                    clientReleases, logged, found, routes, reqs >>

\* SELECT COUNT(*) as count FROM projects, and the test of the count.
\* Variant: the projects count is never tested.
InitDbCountProjects_NoTest ==
    /\ pc = "countProjects"
    /\ \E ok \in BOOLEAN :
          IF Reachable(ok)
          THEN /\ pc' = "insertProjects"
               /\ UNCHANGED thrown
          ELSE Throw("countProjects")
    /\ UNCHANGED << envVars, storeVars, checkedOut, client, clientReleases, logged,
                    found, routes, reqs >>

InitDbCountProjects ==
    /\ pc = "countProjects"
    /\ \E ok \in BOOLEAN :
          IF Reachable(ok)
          THEN /\ pc' = IF IsEmpty(projects) THEN "insertProjects" ELSE "finally"
               /\ UNCHANGED thrown
          ELSE Throw("countProjects")
    /\ UNCHANGED << envVars, storeVars, checkedOut, client, clientReleases, logged,
                    found, routes, reqs >>

\* INSERT INTO projects (...) VALUES (...), (...): both rows or none.
InitDbInsertProjects ==
    /\ pc = "insertProjects"
    /\ \E ok \in BOOLEAN :
          IF Reachable(ok)
          THEN /\ projects' = projects \cup SeedProjects(projectsSeq)
               /\ projectsSeq' = projectsSeq + 2
               /\ pc' = "finally"
               /\ UNCHANGED thrown
          ELSE /\ Throw("insertProjects")
               /\ UNCHANGED << projects, projectsSeq >>
    /\ UNCHANGED << envVars, tablesExist, posts, postsSeq, checkedOut, client,
                    clientReleases, logged, found, routes, reqs >>

\* catch (err) { console.error("Error initializing database:", err); }
\* Variant: the catch block logs and rethrows.
InitDbCatch_Rethrow ==
    /\ pc = "catch"
    /\ logged' = TRUE
    /\ pc' = "rejected"
    /\ UNCHANGED << envVars, storeVars, checkedOut, client, clientReleases, thrown,
                    found, routes, reqs >>

InitDbCatch ==
    /\ pc = "catch"
    /\ logged' = TRUE
    /\ thrown' = "none"
    /\ pc' = "finally"
    /\ UNCHANGED << envVars, storeVars, checkedOut, client, clientReleases, found,
                    routes, reqs >>

\* finally { client.release(); }, and initDb returns to startServer.
\* Variant: release at the end of the try block instead of in finally.
InitDbFinally_ReleaseOnSuccess ==
    /\ pc = "finally"
    /\ IF logged
       THEN UNCHANGED << client, clientReleases, checkedOut >>
       ELSE /\ client' = "released"
            /\ clientReleases' = clientReleases + 1
            /\ checkedOut' = checkedOut - 1
    /\ pc' = "routes"
    /\ UNCHANGED << envVars, storeVars, thrown, logged, found, routes, reqs >>

InitDbFinally ==
    /\ pc = "finally"
    /\ client' = "released"
    /\ clientReleases' = clientReleases + 1
    /\ checkedOut' = checkedOut - 1
    /\ pc' = "routes"
    /\ UNCHANGED << envVars, storeVars, thrown, logged, found, routes, reqs >>

(* ------------------------------------------------- startServer, server.ts *)

\* if (!process.env.DATABASE_URL) process.exit(1); otherwise on to initDb().
StartServer ==
    /\ entry = "server"
    /\ pc = "start"
    /\ pc' = IF dbUrlSet THEN "connect" ELSE "exited"
    /\ UNCHANGED << envVars, storeVars, checkedOut, initDbVars, routes, reqs >>

\* The three app.get(...) calls, reached once await initDb() has returned.
RegisterRoutes ==
    /\ pc = "routes"
    /\ routes' = TRUE
    /\ pc' = "listen"
    /\ UNCHANGED << envVars, storeVars, checkedOut, initDbVars, reqs >>

\* The asset middleware is mounted and app.listen(PORT, "0.0.0.0") is called.
Listen ==
    /\ pc = "listen"
    /\ pc' = "listening"
    /\ UNCHANGED << envVars, storeVars, checkedOut, initDbVars, routes, reqs >>

(* ------------------------------------------------------------ api/index.ts *)

\* The module is loaded: it throws without DATABASE_URL, else registers the
\* routes and exports app; no initDb and no listen().
ApiLoad ==
    /\ entry = "api"
    /\ pc = "load"
    /\ IF dbUrlSet
       THEN routes' = TRUE /\ pc' = "exported"
       ELSE pc' = "threw" /\ UNCHANGED routes
    /\ UNCHANGED << envVars, storeVars, checkedOut, initDbVars, reqs >>

(* ----------------------------------------------------------------- requests *)

\* initDb has returned to startServer in this run of the process.
InitDbReturned == pc \in {"routes", "listen", "listening"}

\* Requests reach the routes: server.ts listens, api/index.ts is invoked.
\* Variant: initDb() called without await, the server listening meanwhile.
Serving_WithoutAwait ==
    \/ entry = "server" /\ pc \in InitDbPcs \cup {"routes", "listen", "listening"}
    \/ entry = "api" /\ pc = "exported"

Serving ==
    \/ entry = "server" /\ pc = "listening"
    \/ entry = "api" /\ pc = "exported"

\* A request arrives and its handler calls pool.query.  The pool checks a
\* connection out for the query; if it can get none the query rejects at once.
Receive ==
    /\ Serving
    /\ BagCardinality(reqs) < MaxInFlight
    /\ \E req \in Requests, got \in BOOLEAN :
          IF got
          THEN /\ reqs' = reqs (+) One(Querying(req))
               /\ checkedOut' = checkedOut + 1
          ELSE /\ reqs' = reqs (+) One(Responded(req, FALSE, Handle(req, FALSE)))
               /\ UNCHANGED checkedOut
    /\ UNCHANGED << envVars, pc, storeVars, initDbVars, routes >>

\* pool.query settles: the connection goes back to the pool whatever the
\* outcome, and the handler sends its response.
Respond ==
    /\ \E q \in InPhase("querying"), up \in BOOLEAN :
          reqs' = (reqs (-) One(q)) (+) One(Responded(q, up, Handle(q, up)))
    /\ checkedOut' = checkedOut - 1
    /\ UNCHANGED << envVars, pc, storeVars, initDbVars, routes >>

\* The client has its response; the request is over.
Complete ==
    /\ \E r \in InPhase("responded") : reqs' = reqs (-) One(r)
    /\ UNCHANGED << envVars, pc, storeVars, checkedOut, initDbVars, routes >>

(* ------------------------------------------------------------------ process *)

\* The process is stopped and started again: its pool, its requests and its
\* locals are gone, the store and the environment stay.
Restart ==
    /\ pc \in {"listening", "rejected", "exited", "exported", "threw"}
    /\ pc' = IF entry = "server" THEN "start" ELSE "load"
    /\ checkedOut' = 0
    /\ client' = "none"
    /\ clientReleases' = 0
    /\ thrown' = "none"
    /\ logged' = FALSE
    /\ routes' = FALSE
    /\ reqs' = EmptyBag
    /\ found' = NothingFound
    /\ UNCHANGED << envVars, storeVars >>

Startup ==
    \/ StartServer
    \/ InitDbConnect
    \/ InitDbCreateTables
    \/ InitDbCountPosts
    \/ InitDbInsertPosts
    \/ InitDbCountProjects
    \/ InitDbInsertProjects
    \/ InitDbCatch
    \/ InitDbFinally
    \/ RegisterRoutes
    \/ Listen

Next ==
    \/ Startup
    \/ ApiLoad
    \/ Receive
    \/ Respond
    \/ Complete
    \/ Restart

Spec == Init /\ [][Next]_vars

\* startServer's steps are the only work of the event loop until it listens,
\* so each one enabled is eventually taken.  The store starts fresh.
FreshStores == { st \in InitialStores : ~st.tables }

FairInit == InitWith(FreshStores) /\ peerMode = "exclusive"

FairSpec == FairInit /\ [][Next]_vars /\ WF_vars(Startup)

(* ------------------------------------------- the peer instance, server.ts *)

\* The peer is inside initDb.
PeerInside == peerPc \notin {"off", "done"}

\* Exactly one initializer instance runs at a time.
OneAtATime == peerMode = "exclusive"

\* What a step of the peer leaves alone: the process, its pool and requests.
processVars ==
    << entry, dbUrlSet, startedEmpty, peerMode, pc, checkedOut, client,
       clientReleases, thrown, logged, found, routes, reqs >>

\* The peer starts and its initDb awaits pool.connect(); a rejection ends it.
PeerConnect ==
    /\ peerPc = "off"
    /\ dbUrlSet
    /\ OneAtATime => pc \notin InitDbPcs
    /\ \E ok \in BOOLEAN : peerPc' = IF ok THEN "create" ELSE "done"
    /\ UNCHANGED << processVars, storeVars >>

\* CREATE TABLE IF NOT EXISTS posts (...); CREATE TABLE IF NOT EXISTS projects (...)
PeerCreateTables ==
    /\ peerPc = "create"
    /\ \E ok \in BOOLEAN :
          IF ok
          THEN tablesExist' = TRUE /\ peerPc' = "countPosts"
          ELSE peerPc' = "finally" /\ UNCHANGED tablesExist
    /\ UNCHANGED << processVars, posts, projects, postsSeq, projectsSeq >>

\* SELECT COUNT(*) as count FROM posts, and the test of the count.
\* Variant: the count is never tested.
PeerCountPosts_NoTest ==
    /\ peerPc = "countPosts"
    /\ \E ok \in BOOLEAN :
          peerPc' = IF Reachable(ok) THEN "insertPosts" ELSE "finally"
    /\ UNCHANGED << processVars, storeVars >>

PeerCountPosts ==
    /\ peerPc = "countPosts"
    /\ \E ok \in BOOLEAN :
          peerPc' = IF Reachable(ok)
                    THEN IF IsEmpty(posts) THEN "insertPosts" ELSE "countProjects"
                    ELSE "finally"
    /\ UNCHANGED << processVars, storeVars >>

\* INSERT INTO posts (...) VALUES (...), (...): both rows or none.
PeerInsertPosts ==
    /\ peerPc = "insertPosts"
    /\ \E ok \in BOOLEAN :
          IF Reachable(ok)
          THEN /\ posts' = posts \cup SeedPosts(postsSeq)
               /\ postsSeq' = postsSeq + 2
               /\ peerPc' = "countProjects"
          ELSE /\ peerPc' = "finally"
               /\ UNCHANGED << posts, postsSeq >>
    /\ UNCHANGED << processVars, tablesExist, projects, projectsSeq >>

\* SELECT COUNT(*) as count FROM projects, and the test of the count.
PeerCountProjects ==
    /\ peerPc = "countProjects"
    /\ \E ok \in BOOLEAN :
          peerPc' = IF Reachable(ok)
                    THEN IF IsEmpty(projects) THEN "insertProjects" ELSE "finally"
                    ELSE "finally"
    /\ UNCHANGED << processVars, storeVars >>

\* INSERT INTO projects (...) VALUES (...), (...): both rows or none.
PeerInsertProjects ==
    /\ peerPc = "insertProjects"
    /\ \E ok \in BOOLEAN :
          IF Reachable(ok)
          THEN /\ projects' = projects \cup SeedProjects(projectsSeq)
               /\ projectsSeq' = projectsSeq + 2
          ELSE UNCHANGED << projects, projectsSeq >>
    /\ peerPc' = "finally"
    /\ UNCHANGED << processVars, tablesExist, posts, postsSeq >>

\* catch and finally: the error is logged, the client released, initDb returns.
PeerFinally ==
    /\ peerPc = "finally"
    /\ peerPc' = "done"
    /\ UNCHANGED << processVars, storeVars >>

\* The peer is stopped and started again.
PeerRestart ==
    /\ peerPc = "done"
    /\ peerPc' = "off"
    /\ UNCHANGED << processVars, storeVars >>

Peer ==
    \/ PeerConnect
    \/ PeerCreateTables
    \/ PeerCountPosts
    \/ PeerInsertPosts
    \/ PeerCountProjects
    \/ PeerInsertProjects
    \/ PeerFinally
    \/ PeerRestart

\* startServer of the process, held back while the peer is inside initDb when
\* the deployment runs one initializer at a time.
ConcStartServer ==
    /\ OneAtATime => ~PeerInside
    /\ StartServer

ConcNext ==
    \/ ConcStartServer
    \/ InitDbConnect
    \/ InitDbCreateTables
    \/ InitDbCountPosts
    \/ InitDbInsertPosts
    \/ InitDbCountProjects
    \/ InitDbInsertProjects
    \/ InitDbCatch
    \/ InitDbFinally
    \/ RegisterRoutes
    \/ Listen
    \/ Restart
    \/ Peer

\* Two instances of server.ts against a store that starts fresh, in either
\* deployment.  ConcSpec follows their startups and restarts; the requests they
\* then serve write nothing (Spec) and are left to Spec.
ConcInit ==
    /\ InitWith(FreshStores)
    /\ entry = "server"
    /\ peerMode \in {"exclusive", "concurrent"}

ConcSpec == ConcInit /\ [][ConcNext]_vars

(* ------------------------------------------------------------- properties *)

\* The responses sent by the step: the answered requests it adds to the bag.
NewResponses ==
    { r \in BagToSet(reqs') : r.phase = "responded" /\ CopiesIn(r, reqs') > CopiesIn(r, reqs) }

\* seq lists exactly the rows of set, in strictly descending id order.
ExactlyDescending(seq, set) ==
    /\ Len(seq) = Cardinality(set)
    /\ { seq[k] : k \in 1..Len(seq) } = set
    /\ \A j, k \in 1..Len(seq) : j < k => seq[j].id > seq[k].id

\* The integer each well-formed id of IdParams names, written out.
NamedId(idText) ==
    CASE idText = <<"1">> -> 1
      [] idText = <<"0", "2">> -> 2
      [] idText = <<"9", "9", "9", "9">> -> 9999
      [] OTHER -> -1

\* The query of request r could not be carried out: the store was out of
\* reach, the tables are missing, or the id is no 32-bit integer.
QueryFailed(r) ==
    \/ ~r.up
    \/ ~tablesExist
    \/ r.kind = "post" /\ NamedId(r.id) = -1

FirstSeedPost ==
    [id |-> 1, type |-> "thinking", title |-> "All I Need Is a Renaissance, Summer, and Success"]

SecondSeedPost ==
    [id |-> 2, type |-> "doing", title |-> "Why I'm Building This Notes Section"]

\* C1: a run of initDb that found a table non-empty leaves that table exactly as
\* it found it, so a later run against a populated store duplicates no seed row.
C1_InitDbIdempotent ==
    /\ found.posts # {} => posts = found.posts
    /\ found.projects # {} => projects = found.projects

\* A later run of initDb has returned, having found both tables holding the
\* seed rows an earlier run inserted into the empty store.
C1_Witness ==
    /\ startedEmpty
    /\ InitDbReturned
    /\ ~logged
    /\ found.posts = SeedPosts(1)
    /\ found.projects = SeedProjects(1)
    /\ posts = found.posts
    /\ projects = found.projects

\* C2: from a store that started empty, once an error-free run of initDb has
\* returned, posts holds exactly the two seed posts (id 1 thinking, id 2 doing)
\* and projects exactly two rows, and an unfiltered GET /api/posts whose query
\* succeeds answers those two posts with id 2 before id 1.
C2_FreshSeed ==
    /\ [](startedEmpty /\ InitDbReturned /\ ~logged =>
            /\ posts = {FirstSeedPost, SecondSeedPost}
            /\ Cardinality(projects) = 2
            /\ { p.id : p \in projects } = {1, 2})
    /\ [][\A r \in NewResponses :
             startedEmpty /\ entry = "server" /\ ~logged /\ r.up
             /\ r.kind = "posts" /\ ~r.type.present =>
                /\ r.resp.status = 200
                /\ r.resp.rows = <<SecondSeedPost, FirstSeedPost>>]_vars

\* The freshly seeded server has answered an unfiltered GET /api/posts.
C2_Witness ==
    /\ startedEmpty
    /\ pc = "listening"
    /\ ~logged
    /\ \E r \in InPhase("responded") :
          r.kind = "posts" /\ ~r.type.present /\ r.resp.status = 200 /\ Len(r.resp.rows) = 2

\* C3: GET /api/posts?type=thinking or ?type=doing whose query succeeds answers
\* 200 with exactly the posts of that type, all of them and no others, in
\* strictly descending id order.
C3_TypeFilter ==
    [][\A r \in NewResponses :
          r.kind = "posts" /\ r.type.present /\ r.type.value \in PostTypes
          /\ ~QueryFailed(r) =>
             /\ r.resp.status = 200
             /\ r.resp.tag = "array"
             /\ ExactlyDescending(r.resp.rows, { p \in posts : p.type = r.type.value })]_vars

\* A filtered request was answered with one of the two posts there are.
C3_Witness ==
    \E r \in InPhase("responded") :
       /\ r.kind = "posts" /\ r.type = TypeParam("doing")
       /\ r.resp.status = 200
       /\ Len(r.resp.rows) = 1
       /\ Cardinality(posts) = 2

\* C4: GET /api/posts/:id whose query succeeds answers 200 with exactly the row
\* of that id when there is one, and 404 {"error":"Post not found"} when there
\* is none: never 500, never another row.
C4_PostById ==
    [][\A r \in NewResponses :
          r.kind = "post" /\ ~QueryFailed(r) =>
             LET match == { p \in posts : p.id = NamedId(r.id) }
             IN  IF match # {}
                 THEN /\ r.resp.status = 200
                      /\ r.resp.tag = "object"
                      /\ Len(r.resp.rows) = 1
                      /\ r.resp.rows[1] \in match
                 ELSE r.resp = [status |-> 404, tag |-> "error", rows |-> <<>>,
                                error |-> "Post not found"]]_vars

\* One request found post 2 and another found no post 9999.
C4_Witness ==
    \E r, q \in InPhase("responded") :
       /\ r.kind = "post" /\ r.id = <<"0", "2">>
       /\ r.resp.status = 200 /\ r.resp.rows[1].id = 2
       /\ q.kind = "post" /\ q.id = <<"9", "9", "9", "9">>
       /\ q.resp.status = 404
       /\ Cardinality(posts) = 2

\* C5: on each endpoint a request whose query failed is answered 500
\* {"error":"Database error"} and nothing else, and 404 is answered only for a
\* query that succeeded and returned no row.
C5_StoreFailure ==
    [][\A r \in NewResponses :
          /\ QueryFailed(r) =>
                r.resp = [status |-> 500, tag |-> "error", rows |-> <<>>,
                          error |-> "Database error"]
          /\ r.resp.status = 404 =>
                /\ ~QueryFailed(r)
                /\ r.kind = "post"
                /\ \A p \in posts : p.id # NamedId(r.id)]_vars

\* With the store in reach and populated, a malformed id was answered 500,
\* and a list request whose connection broke was answered 500.
C5_Witness ==
    \E r, q \in InPhase("responded") :
       /\ r.kind = "post" /\ r.id = <<"a", "b", "c">> /\ r.up /\ r.resp.status = 500
       /\ q.kind = "projects" /\ ~q.up /\ q.resp.status = 500
       /\ tablesExist
       /\ posts # {}

\* C6: no step of a request changes posts or projects; the only steps that do
\* are initDb's two inserts, each into a table that is empty, adding the seed
\* rows.
C6_ReadOnly ==
    [][/\ posts' # posts =>
             pc = "insertPosts" /\ posts = {} /\ posts' = SeedPosts(postsSeq)
       /\ projects' # projects =>
             pc = "insertProjects" /\ projects = {} /\ projects' = SeedProjects(projectsSeq)
       /\ reqs' # reqs => UNCHANGED storeVars]_vars

\* The seeded server has answered one request 404 and another 500: the tables
\* hold what initDb put there.
C6_Witness ==
    /\ startedEmpty
    /\ posts = SeedPosts(1)
    /\ projects = SeedProjects(1)
    /\ \E r, q \in InPhase("responded") : r.resp.status = 404 /\ q.resp.status = 500

\* C7, as claimed: every present type value, the empty string included, is
\* matched exactly against the type column.
C7_AnyPresentValue ==
    [][\A r \in NewResponses :
          r.kind = "posts" /\ r.type.present /\ ~QueryFailed(r) =>
             /\ r.resp.status = 200
             /\ ExactlyDescending(r.resp.rows, { p \in posts : p.type = r.type.value })]_vars

\* C7, amended: every present, non-empty type value is matched exactly against
\* the type column, so one that matches no row is answered 200 with an empty
\* array; the empty string is treated as no filter and answers every post.
C7_NonEmptyValue ==
    [][\A r \in NewResponses :
          r.kind = "posts" /\ r.type.present /\ ~QueryFailed(r) =>
             /\ r.resp.status = 200
             /\ r.type.value # "" =>
                   /\ \A k \in 1..Len(r.resp.rows) : r.resp.rows[k].type = r.type.value
                   /\ (~\E p \in posts : p.type = r.type.value) => r.resp.rows = <<>>
             /\ r.type.value = "" => ExactlyDescending(r.resp.rows, posts)]_vars

\* ?type=Thinking was answered with an empty array while posts has rows.
C7_Witness ==
    \E r \in InPhase("responded") :
       /\ r.kind = "posts" /\ r.type = TypeParam("Thinking")
       /\ r.resp.status = 200
       /\ r.resp.rows = <<>>
       /\ posts # {}

\* C8, as claimed: a failure of initDb at any stage leaves startServer going,
\* so the process never ends rejected.
C8_AnyStageNonFatal == thrown # "none" => pc # "rejected"

\* C8, amended: a failure (creating the tables, counting rows, inserting seed
\* rows) inside initDb's try block is logged and startServer goes on to
\* register the routes and listen; a failure to acquire the pooled connection
\* is not caught, and startServer rejects without registering any route.
C8_CaughtNonFatal ==
    /\ (pc = "catch") ~> (pc = "listening" /\ logged /\ routes)
    /\ [](thrown = "connect" => pc = "rejected" /\ ~routes /\ ~logged)

\* The server listens although CREATE TABLE failed: the tables are missing.
C8_Witness ==
    /\ entry = "server"
    /\ pc = "listening"
    /\ logged
    /\ routes
    /\ ~tablesExist

\* C9, as claimed: whatever the entry point, a request is handled only after
\* initDb has returned.
C9_EveryEntryPoint == reqs # EmptyBag => InitDbReturned

\* C9, amended: under server.ts a request is handled only after initDb has
\* returned and released its client; api/index.ts serves requests without
\* ever running initDb.
C9_ServerEntryPoint ==
    /\ entry = "server" /\ reqs # EmptyBag => InitDbReturned /\ client = "released"
    /\ entry = "api" => pc \notin InitDbPcs /\ client = "none" /\ found = NothingFound

\* The server handles a request after an initDb that logged an error.
C9_Witness ==
    /\ entry = "server"
    /\ logged
    /\ InPhase("querying") # {}

\* C10: the pool's checked-out connections are exactly initDb's client while
\* held plus one per request whose query is outstanding; initDb has released
\* its client exactly once by the time it returns, on the error path too; so
\* with initDb returned and no query outstanding none is checked out.
C10_ScopedConnections ==
    /\ checkedOut = (IF client = "held" THEN 1 ELSE 0) + NumInPhase("querying")
    /\ clientReleases = (IF client = "released" THEN 1 ELSE 0)
    /\ client = "held" <=> pc \in InitDbPcs \ {"connect"}
    /\ InitDbReturned => client = "released"
    /\ InitDbReturned /\ InPhase("querying") = {} => checkedOut = 0

\* After an initDb that failed and two requests, one answered 500, every
\* connection is back in the pool.
C10_Witness ==
    /\ pc = "listening"
    /\ logged
    /\ BagCardinality(reqs) = 2
    /\ InPhase("querying") = {}
    /\ \E r \in InPhase("responded") : r.resp.status = 500 /\ r.up
    /\ checkedOut = 0

\* C11: with two initializer instances, when exactly one runs at a time no
\* table ever holds more than the one seed set; only when their runs overlap
\* can both read a count of 0 before either inserts and both insert, and then a
\* table holds the seed set twice (4 rows) and never more.
C11_CheckThenSeedRace ==
    /\ OneAtATime => posts \in {{}, SeedPosts(1)} /\ projects \in {{}, SeedProjects(1)}
    /\ posts \in {{}, SeedPosts(1), SeedPosts(1) \cup SeedPosts(3)}
    /\ projects \in {{}, SeedProjects(1), SeedProjects(1) \cup SeedProjects(3)}
    /\ pc = "insertPosts" /\ peerPc = "insertPosts" => ~OneAtATime

\* Both instances had read 0 before either inserted: both tables hold the
\* seed rows twice.
C11_Witness ==
    /\ peerMode = "concurrent"
    /\ Cardinality(posts) = 4
    /\ Cardinality(projects) = 4
    /\ \E r, q \in posts : r.id # q.id /\ r.title = q.title

====
